---- MODULE Spec2Model ----
(***************************************************************************)
(* Model of chr-node-test-package/simple-server.py: a single-threaded      *)
(* HTTP server (socketserver.TCPServer + CustomHandler.do_GET) that serves *)
(* a landing page on "/", the installation script on "/install" and falls  *)
(* back to SimpleHTTPRequestHandler for every other path, preceded by the  *)
(* startup sequence of main().                                             *)
(*                                                                         *)
(* Text is modelled as sequences of string chunks: a request path is the   *)
(* sequence of its separators and segments (<<"/", "install">>), a file's  *)
(* content is a sequence of bytes, a response body is a sequence of chunks.*)
(***************************************************************************)
EXTENDS Integers, Sequences, FiniteSets, TLC

VARIABLES
    pc,           \* position of the single program thread
    cwd,          \* process working directory
    port,         \* module constant PORT as configured
    script_file,  \* module constant SCRIPT_FILE as configured
    local_ip,     \* main()'s local_ip
    ip_error,     \* which discovery call raised (caught at line 107)
    stdout,       \* lines printed, as tags
    files,        \* the script directory: name -> [exists, data]
    path,         \* self.path of the request being handled
    resp,         \* what the handler has put on the wire for that request
    last,         \* the previous exchange, as the client received it
    listening,    \* the port the server socket is bound to, 0 before
    sigint,       \* a user interrupt has been delivered
    exit          \* how the process ended ("running" while it has not)

vars == <<pc, cwd, port, script_file, local_ip, ip_error, stdout, files,
          path, resp, last, listening, sigint, exit>>

---------------------------------------------------------------------------
(* Bounds and universes *)

MaxLen == 1

PORT == 8080

SCRIPT_FILE == "termux-one-click-install.sh"

Ports == {PORT, 3000}

ScriptFiles == {SCRIPT_FILE, "setup.sh"}

OtherFile == "notes.txt"

Bytes == {"a", "b"}

RECURSIVE SeqsUpTo(_)
SeqsUpTo(n) ==
    IF n = 0 THEN {<< >>}
    ELSE LET shorter == SeqsUpTo(n - 1)
         IN  shorter \cup {Append(s, b) : s \in {t \in shorter : Len(t) = n - 1}, b \in Bytes}

Contents == SeqsUpTo(MaxLen)

Absent == [exists |-> FALSE, data |-> << >>]

FileStates == {Absent} \cup {[exists |-> TRUE, data |-> c] : c \in Contents}

FileNames(script) == {script, OtherFile}

ROOT == <<"/">>

INSTALL == <<"/", "install">>

Paths ==
    { ROOT, INSTALL,
      <<"/", "install", "/">>,
      <<"/", "install", "?", "x=1">>,
      <<"/", "INSTALL">>,
      <<"/", "notes.txt">>,
      <<"/", "missing">> }

---------------------------------------------------------------------------
(* The wire: what BaseHTTPRequestHandler's send_* calls put on the socket *)

EmptyResp ==
    [statuses |-> << >>, headers |-> << >>, ended |-> FALSE, body |-> << >>,
     branches |-> << >>, probes |-> 0, raised |-> FALSE]

NoExchange == [path |-> << >>, resp |-> EmptyResp]

send_response(r, code) == [r EXCEPT !.statuses = Append(@, code)]

send_header(r, name, value) == [r EXCEPT !.headers = Append(@, <<name, value>>)]

end_headers(r) == [r EXCEPT !.ended = TRUE]

wfile_write(r, data) == [r EXCEPT !.body = @ \o data]

send_error(r, code, message) ==
    wfile_write(
        end_headers(
            send_header(
                send_header(send_response(r, code),
                            "Content-Type", <<"text/html;charset=utf-8">>),
                "Connection", <<"close">>)),
        <<"Error response", message>>)

enter(r, branch) == [r EXCEPT !.branches = Append(@, branch)]

---------------------------------------------------------------------------
(* Pure helpers of do_GET *)

DigitChar == <<"0", "1", "2", "3", "4", "5", "6", "7", "8", "9">>

\* str(n) for a non-negative integer, as the f-string at line 74 formats PORT.
RECURSIVE Digits(_)
Digits(n) ==
    IF n < 10 THEN <<DigitChar[n + 1]>>
    ELSE Digits(n \div 10) \o <<DigitChar[(n % 10) + 1]>>

\* Faulty variant: the footer repeats the literal 8080 of line 62 instead of PORT.
LandingPage_literal(p) ==
    <<"<!DOCTYPE html>...<code>curl -L http://YOUR_IP:">>
        \o <<"8", "0", "8", "0">>
        \o <<"/install | bash</code>...<small>Server running on port ">>
        \o <<"8", "0", "8", "0">>
        \o <<"</small>...</html>">>

\* The f-string of lines 37-78: the command of line 62 carries the literal
\* 8080, the footer of line 74 interpolates PORT.
LandingPage(p) ==
    <<"<!DOCTYPE html>...<code>curl -L http://YOUR_IP:">>
        \o <<"8", "0", "8", "0">>
        \o <<"/install | bash</code>...<small>Server running on port ">>
        \o Digits(p)
        \o <<"</small>...</html>">>

\* Faulty variant: any path that starts with /install takes the install branch.
Route_prefix(p) ==
    IF Len(p) >= 2 /\ SubSeq(p, 1, 2) = INSTALL THEN "install"
    ELSE IF p = ROOT THEN "root"
    ELSE "default"

\* The if / elif / else of lines 18, 31, 81: string equality on self.path.
Route(p) ==
    IF p = INSTALL THEN "install"
    ELSE IF p = ROOT THEN "root"
    ELSE "default"

\* os.path.exists(name): a relative lookup, resolved against the working
\* directory; the modelled files are those of the script's directory.
path_exists(name) ==
    /\ cwd = "script_dir"
    /\ name \in DOMAIN files
    /\ files[name].exists

\* Faulty variant: the attachment header is sent as inline.
InstallHeaders_inline(r) ==
    end_headers(
        send_header(
            send_header(send_response(r, 200), "Content-Type", <<"text/plain">>),
            "Content-Disposition", <<"inline">>))

\* Lines 21-24.
InstallHeaders(r) ==
    end_headers(
        send_header(
            send_header(send_response(r, 200), "Content-Type", <<"text/plain">>),
            "Content-Disposition",
            <<"attachment", "filename=\"chr-node-install.sh\"">>))

\* SimpleHTTPRequestHandler.translate_path: the query is dropped, the path is
\* resolved below the working directory; "" when it names no regular file
\* (a trailing slash on a file name is answered 404 by send_head).
RECURSIVE DropQuery(_)
DropQuery(p) ==
    IF p = << >> \/ Head(p) = "?" THEN << >>
    ELSE <<Head(p)>> \o DropQuery(Tail(p))

translate_path(p) ==
    LET q == DropQuery(p)
    IN  IF Len(q) = 2 /\ q[1] = "/" THEN q[2] ELSE ""

\* super().do_GET(): serve the file the path names, else 404.
DefaultGET(r, p) ==
    LET name == translate_path(p)
    IN  IF path_exists(name)
        THEN wfile_write(
                 end_headers(
                     send_header(send_response(r, 200),
                                 "Content-type", <<"application/octet-stream">>)),
                 files[name].data)
        ELSE send_error(r, 404, "File not found")

---------------------------------------------------------------------------
(* Initial state: the process has been started, main() has not run yet *)

Init ==
    /\ pc = "chdir"
    /\ cwd = "invocation_dir"
    /\ port \in Ports
    /\ script_file \in ScriptFiles
    /\ local_ip = "unset"
    /\ ip_error = "none"
    /\ stdout = << >>
    /\ files \in [FileNames(script_file) -> FileStates]
    /\ path = << >>
    /\ resp = EmptyResp
    /\ last = NoExchange
    /\ listening = 0
    /\ sigint = FALSE
    /\ exit = "running"

config == <<port, script_file>>

request == <<path, resp, last>>

server == <<files, request, listening>>

---------------------------------------------------------------------------
(* main(), lines 84-117 *)

\* Line 85, os.chdir(os.path.dirname(__file__)).
Chdir ==
    /\ pc = "chdir"
    /\ cwd' = "script_dir"
    /\ pc' = "announce"
    /\ UNCHANGED <<config, local_ip, ip_error, stdout, server, sigint, exit>>

\* Line 85 raising: dirname(__file__) is "" when the script is started by a
\* bare relative name on an interpreter that keeps __file__ relative, and
\* os.chdir("") raises FileNotFoundError, which nothing catches.
ChdirFail ==
    /\ pc = "chdir"
    /\ pc' = "exited"
    /\ exit' = "chdir_error"
    /\ UNCHANGED <<config, cwd, local_ip, ip_error, stdout, server, sigint>>

\* Lines 87-89.
Announce ==
    /\ pc = "announce"
    /\ stdout' = stdout \o <<"starting", "serving_script", "">>
    /\ pc' = "socket"
    /\ UNCHANGED <<config, cwd, local_ip, ip_error, server, sigint, exit>>

\* Faulty variant: the failure of discovery is not caught.
ExceptHandler_uncaught(step) ==
    /\ ip_error' = step
    /\ pc' = "exited"
    /\ exit' = "discovery_error"
    /\ UNCHANGED <<local_ip, stdout>>

\* Lines 107-111: except Exception.
ExceptHandler(step) ==
    /\ ip_error' = step
    /\ local_ip' = "YOUR_IP"
    /\ stdout' = stdout \o <<"local_url", "mobile_url_placeholder", "replace_hint">>
    /\ pc' = "bind"
    /\ UNCHANGED exit

\* Line 95, socket.socket(AF_INET, SOCK_DGRAM).
SocketOk ==
    /\ pc = "socket"
    /\ pc' = "connect"
    /\ UNCHANGED <<config, cwd, local_ip, ip_error, stdout, server, sigint, exit>>

SocketFail ==
    /\ pc = "socket"
    /\ ExceptHandler("socket")
    /\ UNCHANGED <<config, cwd, server, sigint>>

\* Line 96, s.connect(("8.8.8.8", 80)).
ConnectOk ==
    /\ pc = "connect"
    /\ pc' = "getsockname"
    /\ UNCHANGED <<config, cwd, local_ip, ip_error, stdout, server, sigint, exit>>

ConnectFail ==
    /\ pc = "connect"
    /\ ExceptHandler("connect")
    /\ UNCHANGED <<config, cwd, server, sigint>>

\* Lines 97-105: the address is read, the socket closed, the banner printed.
GetsocknameOk ==
    /\ pc = "getsockname"
    /\ local_ip' = "192.168.1.23"
    /\ stdout' = stdout \o <<"local_url", "mobile_url", "install_command", "",
                             "press_ctrl_c", "rule">>
    /\ pc' = "bind"
    /\ UNCHANGED <<config, cwd, ip_error, server, sigint, exit>>

GetsocknameFail ==
    /\ pc = "getsockname"
    /\ ExceptHandler("getsockname")
    /\ UNCHANGED <<config, cwd, server, sigint>>

\* Line 114, socketserver.TCPServer(("", PORT), CustomHandler).
BindOk ==
    /\ pc = "bind"
    /\ listening' = port
    /\ pc' = "serving"
    /\ UNCHANGED <<config, cwd, local_ip, ip_error, stdout, files, request, sigint, exit>>

\* Line 114 raising OSError (the port is taken): only KeyboardInterrupt is
\* caught at line 116.
BindFail ==
    /\ pc = "bind"
    /\ pc' = "exited"
    /\ exit' = "bind_error"
    /\ UNCHANGED <<config, cwd, local_ip, ip_error, stdout, files, request, sigint, listening>>

\* The positions inside the try of lines 113-115.
TryPcs == {"bind", "serving", "do_GET", "install_read", "finish"}

\* A user interrupt: KeyboardInterrupt is raised wherever the thread is. It
\* is not an Exception (line 107 lets it through); lines 116-117 catch it
\* inside the try of line 113 only.
Interrupt ==
    /\ pc # "exited"
    /\ sigint' = TRUE
    /\ pc' = "exited"
    /\ IF pc \in TryPcs
       THEN /\ stdout' = Append(stdout, "server_stopped")
            /\ exit' = "clean"
       ELSE /\ exit' = "KeyboardInterrupt"
            /\ UNCHANGED stdout
    /\ UNCHANGED <<config, cwd, local_ip, ip_error, server>>

---------------------------------------------------------------------------
(* The serve loop (line 115) and CustomHandler.do_GET (lines 17-82) *)

startup == <<cwd, local_ip, ip_error, stdout, listening, sigint, exit>>

HandlerPcs == {"do_GET", "install_read", "finish"}

\* serve_forever accepts one connection and hands the parsed request to
\* do_GET; TCPServer handles it on the serving thread itself.
HandleRequest(p) ==
    /\ pc = "serving"
    /\ path' = p
    /\ resp' = EmptyResp
    /\ pc' = "do_GET"
    /\ UNCHANGED <<config, startup, files, last>>

\* Faulty variant: a missing script is answered 200 with an empty body.
InstallMissing_ok(r) == end_headers(send_response(r, 200))

\* Line 29.
InstallMissing(r) == send_error(r, 404, "Installation script not found")

\* Lines 18-24: the script exists, status and headers go out.
GetInstallFound ==
    /\ pc = "do_GET"
    /\ Route(path) = "install"
    /\ path_exists(script_file)
    /\ resp' = InstallHeaders([enter(resp, "install") EXCEPT !.probes = @ + 1])
    /\ pc' = "install_read"
    /\ UNCHANGED <<config, startup, files, path, last>>

\* Faulty variant: line 31 reads "if" for "elif", so that a handled
\* /install also reaches the else of line 81.
GetInstallMissing_fallthrough ==
    /\ pc = "do_GET"
    /\ Route(path) = "install"
    /\ ~path_exists(script_file)
    /\ resp' = DefaultGET(
                   enter(InstallMissing([enter(resp, "install") EXCEPT !.probes = @ + 1]),
                         "default"),
                   path)
    /\ pc' = "finish"
    /\ UNCHANGED <<config, startup, files, path, last>>

\* Lines 18-20, 28-29: the script does not exist.
GetInstallMissing ==
    /\ pc = "do_GET"
    /\ Route(path) = "install"
    /\ ~path_exists(script_file)
    /\ resp' = InstallMissing([enter(resp, "install") EXCEPT !.probes = @ + 1])
    /\ pc' = "finish"
    /\ UNCHANGED <<config, startup, files, path, last>>

\* Faulty variant: the bytes of the previous download are served again.
InstallBody_cached ==
    IF last.path = INSTALL /\ last.resp.statuses = <<200>>
    THEN last.resp.body
    ELSE files[script_file].data

\* Line 27, f.read().
InstallBody == files[script_file].data

\* Faulty variant: the script is removed once it has been served.
GetInstallRead_consume ==
    /\ pc = "install_read"
    /\ path_exists(script_file)
    /\ resp' = wfile_write(resp, InstallBody)
    /\ files' = [files EXCEPT ![script_file] = Absent]
    /\ pc' = "finish"
    /\ UNCHANGED <<config, startup, path, last>>

\* Lines 26-27 with open() succeeding: the file is read whole and written.
GetInstallRead ==
    /\ pc = "install_read"
    /\ path_exists(script_file)
    /\ resp' = wfile_write(resp, InstallBody)
    /\ pc' = "finish"
    /\ UNCHANGED <<config, startup, files, path, last>>

\* Line 26 with open() raising FileNotFoundError: do_GET catches nothing,
\* the exception leaves the handler after the 200 and the headers.
GetInstallReadFail ==
    /\ pc = "install_read"
    /\ ~path_exists(script_file)
    /\ resp' = [resp EXCEPT !.raised = TRUE]
    /\ pc' = "finish"
    /\ UNCHANGED <<config, startup, files, path, last>>

\* Lines 31-80.
GetRoot ==
    /\ pc = "do_GET"
    /\ Route(path) = "root"
    /\ resp' = wfile_write(
                   end_headers(
                       send_header(send_response(enter(resp, "root"), 200),
                                   "Content-Type", <<"text/html">>)),
                   LandingPage(port))
    /\ pc' = "finish"
    /\ UNCHANGED <<config, startup, files, path, last>>

\* Lines 81-82.
GetDefault ==
    /\ pc = "do_GET"
    /\ Route(path) = "default"
    /\ resp' = DefaultGET(enter(resp, "default"), path)
    /\ pc' = "finish"
    /\ UNCHANGED <<config, startup, files, path, last>>

\* do_GET has returned (or raised into handle_error): the connection is
\* closed and serve_forever waits for the next one.
FinishRequest ==
    /\ pc = "finish"
    /\ last' = [path |-> path, resp |-> resp]
    /\ path' = << >>
    /\ resp' = EmptyResp
    /\ pc' = "serving"
    /\ UNCHANGED <<config, startup, files>>

---------------------------------------------------------------------------
(* The file system around the server *)

WriteFile(name, data) ==
    /\ pc # "exited"
    /\ files[name] # [exists |-> TRUE, data |-> data]
    /\ files' = [files EXCEPT ![name] = [exists |-> TRUE, data |-> data]]
    /\ UNCHANGED <<config, startup, pc, request>>

DeleteFile(name) ==
    /\ pc # "exited"
    /\ files[name].exists
    /\ files' = [files EXCEPT ![name] = Absent]
    /\ UNCHANGED <<config, startup, pc, request>>

\* No request is being handled.
Quiescent == pc \notin HandlerPcs

---------------------------------------------------------------------------
(* Specifications *)

Program ==
    \/ Chdir
    \/ ChdirFail
    \/ Announce
    \/ SocketOk
    \/ SocketFail
    \/ ConnectOk
    \/ ConnectFail
    \/ GetsocknameOk
    \/ GetsocknameFail
    \/ BindOk
    \/ BindFail
    \/ Interrupt
    \/ \E p \in Paths : HandleRequest(p)
    \/ GetInstallFound
    \/ GetInstallMissing
    \/ GetInstallRead
    \/ GetRoot
    \/ GetDefault
    \/ FinishRequest

FileSystem ==
    \/ \E name \in DOMAIN files, data \in Contents : WriteFile(name, data)
    \/ \E name \in DOMAIN files : DeleteFile(name)

\* The files change only between requests.
Next == Program \/ (Quiescent /\ FileSystem)

Spec == Init /\ [][Next]_vars

\* The files change at any time, also between two statements of do_GET.
NextRace == Program \/ GetInstallReadFail \/ FileSystem

SpecRace == Init /\ [][NextRace]_vars

---------------------------------------------------------------------------
(* Vocabulary of the properties *)

Range(seq) == {seq[i] : i \in DOMAIN seq}

\* The values sent for header `name`, in order of sending.
HeaderValues(r, name) ==
    {r.headers[i][2] : i \in {j \in DOMAIN r.headers : r.headers[j][1] = name}}

\* `piece` occurs in `text` as a contiguous run of chunks.
Contains(text, piece) ==
    \E i \in 0..(Len(text) - Len(piece)) :
        SubSeq(text, i + 1, i + Len(piece)) = piece

\* The decimal text of each configured port, written out by hand.
PortText(p) ==
    CASE p = 8080 -> <<"8", "0", "8", "0">>
      [] p = 3000 -> <<"3", "0", "0", "0">>

\* What a client that asked for /install learns about the script.
Outcome(r) ==
    CASE r.statuses = <<200>> -> [exists |-> TRUE, data |-> r.body]
      [] r.statuses = <<404>> -> Absent
      [] OTHER -> [exists |-> FALSE, data |-> <<"neither 200 nor 404">>]

Answered == pc = "finish"

---------------------------------------------------------------------------
(* Properties of the /install branch *)

\* C1: when /install is answered while the script file exists with content
\* C, the response is one 200 with Content-Type text/plain, a
\* Content-Disposition that contains attachment and names
\* chr-node-install.sh, and a body equal to C.
C1_InstallServesScript ==
    (Answered /\ path = INSTALL /\ files[script_file].exists) =>
        /\ resp.statuses = <<200>>
        /\ HeaderValues(resp, "Content-Type") = {<<"text/plain">>}
        /\ \E v \in HeaderValues(resp, "Content-Disposition") :
               /\ "attachment" \in Range(v)
               /\ "filename=\"chr-node-install.sh\"" \in Range(v)
        /\ resp.body = files[script_file].data
        /\ ~resp.raised

C1_Witness ==
    /\ Answered
    /\ path = INSTALL
    /\ files[script_file].exists
    /\ files[script_file].data # << >>
    /\ resp.body = files[script_file].data

\* C2: while /install is handled with the script file absent, no 200 is
\* ever sent and the file is looked up once; the answer is one 404 whose
\* body is the error message and holds no byte of any file.
C2_MissingScriptIs404 ==
    (pc \in HandlerPcs /\ path = INSTALL /\ ~files[script_file].exists) =>
        /\ 200 \notin Range(resp.statuses)
        /\ resp.probes <= 1
        /\ Answered =>
              /\ resp.statuses = <<404>>
              /\ resp.probes = 1
              /\ resp.body = <<"Error response", "Installation script not found">>
              /\ Range(resp.body) \cap Bytes = {}

C2_Witness ==
    /\ Answered
    /\ path = INSTALL
    /\ ~files[script_file].exists
    /\ resp.statuses = <<404>>
    /\ \E name \in DOMAIN files : files[name].exists

\* C3: every answer to /install tells the state of the script file at the
\* time of that request (its bytes, or 404 while it is absent), whatever an
\* earlier request was answered.
C3_NoCaching ==
    (Answered /\ path = INSTALL) => Outcome(resp) = files[script_file]

\* Two downloads in a row with an edit in between: old bytes, then new.
C3_Witness ==
    /\ Answered
    /\ path = INSTALL
    /\ last.path = INSTALL
    /\ last.resp.statuses = <<200>>
    /\ resp.statuses = <<200>>
    /\ last.resp.body # resp.body
    /\ resp.body = files[script_file].data

---------------------------------------------------------------------------
(* Properties of the landing page and of the dispatch *)

\* C4: an answer to exactly / is one 200 with Content-Type text/html whose
\* body contains the configured port as decimal text, and the body is the
\* page determined by the port alone: the files and the earlier requests
\* do not enter it.
C4_LandingPage ==
    (Answered /\ path = ROOT) =>
        /\ resp.statuses = <<200>>
        /\ HeaderValues(resp, "Content-Type") = {<<"text/html">>}
        /\ Contains(resp.body, PortText(port))
        /\ resp.body = LandingPage(port)

\* The page of a port other than the literal of line 62, with the script
\* absent and after a download was attempted.
C4_Witness ==
    /\ Answered
    /\ path = ROOT
    /\ port = 3000
    /\ ~files[script_file].exists
    /\ last.path = INSTALL
    /\ Contains(resp.body, <<"3", "0", "0", "0">>)

\* C5: the route is chosen by equality on the path. / takes the root branch
\* and /install the install branch; every other path, /install/,
\* /install?x=1 and /INSTALL among them, takes the default branch alone,
\* which sends no Content-Disposition and answers 200 with the contents of
\* the file the path names, or 404 when it names none.
C5_ExactRouting ==
    Answered =>
        /\ path = ROOT => resp.branches = <<"root">>
        /\ path = INSTALL => resp.branches = <<"install">>
        /\ path \notin {ROOT, INSTALL} =>
              LET name == translate_path(path)
              IN  /\ resp.branches = <<"default">>
                  /\ HeaderValues(resp, "Content-Disposition") = {}
                  /\ ~Contains(resp.body, PortText(port))
                  /\ IF name \in DOMAIN files /\ files[name].exists
                     THEN /\ resp.statuses = <<200>>
                          /\ resp.body = files[name].data
                     ELSE /\ resp.statuses = <<404>>
                          /\ resp.body = <<"Error response", "File not found">>

\* /install?x=1 is answered by the default branch (404: no file is named
\* install) although the script exists, after /notes.txt was served.
C5_Witness ==
    /\ Answered
    /\ path = <<"/", "install", "?", "x=1">>
    /\ files[script_file].exists
    /\ resp.statuses = <<404>>
    /\ last.path = <<"/", "notes.txt">>
    /\ last.resp.statuses = <<200>>
    /\ last.resp.body # << >>

\* C6: when do_GET hands control back to the serve loop exactly one branch
\* has run, exactly one status line has been sent and the headers are
\* closed; no second status line or branch exists at any moment; and a
\* request is dispatched only from the idle loop, after the previous one
\* was recorded as answered.
C6_OneResponsePerRequest ==
    /\ [](/\ Len(resp.statuses) <= 1
          /\ Len(resp.branches) <= 1
          /\ Answered =>
                /\ Len(resp.statuses) = 1
                /\ Len(resp.branches) = 1
                /\ resp.branches[1] = Route(path)
                /\ resp.ended
          /\ pc = "serving" => resp = EmptyResp)
    /\ [][/\ (pc # "do_GET" /\ pc' = "do_GET") => pc = "serving"
          /\ (pc \in HandlerPcs /\ pc' = "serving") =>
                (Answered /\ last'.path = path /\ last'.resp = resp)
          /\ (pc \in HandlerPcs /\ pc' \in HandlerPcs) => path' = path]_vars

C6_Witness ==
    /\ Answered
    /\ Len(resp.statuses) = 1
    /\ last.path # << >>
    /\ last.path # path
    /\ Len(last.resp.statuses) = 1

\* C10: a step of request handling changes neither the configured port,
\* the script file name, the working directory nor any file, and the answer
\* is the one determined by the path, the files and the configuration,
\* whatever was served before.
ResponseFor(p) ==
    LET probed(branch) == [enter(EmptyResp, branch) EXCEPT !.probes = 1]
    IN  CASE p = INSTALL ->
               IF cwd = "script_dir" /\ files[script_file].exists
               THEN wfile_write(InstallHeaders(probed("install")),
                                files[script_file].data)
               ELSE send_error(probed("install"), 404,
                               "Installation script not found")
          [] p = ROOT ->
               [statuses |-> <<200>>,
                headers |-> << <<"Content-Type", <<"text/html">> >> >>,
                ended |-> TRUE,
                body |-> LandingPage(port),
                branches |-> <<"root">>, probes |-> 0, raised |-> FALSE]
          [] OTHER -> DefaultGET(enter(EmptyResp, "default"), p)

C10_Stateless ==
    /\ [](Answered => resp = ResponseFor(path))
    /\ [][(pc \in HandlerPcs \/ pc' \in HandlerPcs) =>
              UNCHANGED <<port, script_file, cwd, files>>]_vars

\* The same download, answered after a different request had been served.
C10_Witness ==
    /\ Answered
    /\ path = INSTALL
    /\ resp.statuses = <<200>>
    /\ resp.body # << >>
    /\ last.path = <<"/", "missing">>
    /\ last.resp.statuses = <<404>>

---------------------------------------------------------------------------
(* Properties of main() *)

BannerPrinted == "local_url" \in Range(stdout)

\* C7: whichever call of the discovery raises, the exception is caught:
\* local_ip is the placeholder YOUR_IP, the placeholder banner is printed,
\* the process has not ended on that error and the next statement is the
\* bind of line 114; a successful bind is on the configured port and leads
\* into the serve loop; and whenever a request can be accepted the working
\* directory has been changed and the banner printed.
C7_StartupSurvivesDiscoveryFailure ==
    /\ [](/\ ip_error # "none" =>
                /\ local_ip = "YOUR_IP"
                /\ "mobile_url_placeholder" \in Range(stdout)
                /\ exit # "discovery_error"
          /\ pc \in {"serving"} \cup HandlerPcs =>
                /\ cwd = "script_dir"
                /\ BannerPrinted
                /\ listening = port)
    /\ [][/\ (ip_error = "none" /\ ip_error' # "none") =>
                (pc \in {"socket", "connect", "getsockname"} /\ pc' = "bind")
          /\ (pc = "bind" /\ pc' # "bind" /\ exit' = "running") =>
                (pc' = "serving" /\ listening' = port)]_vars

\* The server answers a request although connect() had failed.
C7_Witness ==
    /\ ip_error = "connect"
    /\ local_ip = "YOUR_IP"
    /\ Answered
    /\ resp.statuses = <<200>>
    /\ listening = port

\* C8: an interrupt, wherever it arrives, is caught: the process ends with
\* the shutdown message printed and no unhandled KeyboardInterrupt.
C8_InterruptCaughtEverywhere ==
    sigint =>
        /\ pc = "exited"
        /\ exit = "clean"
        /\ "server_stopped" \in Range(stdout)

\* C9: with files changing at any time, a request for /install ends as a
\* 404 or as a 200 followed by the complete bytes of the file, never with
\* an exception raised after the 200.
C9_CheckAndReadAreOneDecision ==
    (Answered /\ path = INSTALL) =>
        /\ ~resp.raised
        /\ \/ resp.statuses = <<404>>
           \/ /\ resp.statuses = <<200>>
              /\ resp.body \in Contents

====
